---- MODULE Spec2Model ----
(***************************************************************************)
(* Model of the kat-lang lexer (src/src/lexer.rs): the cursor over the     *)
(* input bytes and the one public operation, next_token.                   *)
(*                                                                         *)
(* Bytes are integers 0..255 and the buffer is a sequence of them; the     *)
(* byte at offset k of the source is input[k + 1].  Strings carried by     *)
(* tokens are sequences of code points.  A token is a pair                 *)
(* <<tag, payload>>; the payload is <<>> for the tags without one.         *)
(***************************************************************************)
EXTENDS Integers, Sequences, FiniteSets, TLC

VARIABLES input, position, read_position, ch, pc, quote, hist

vars == <<input, position, read_position, ch, pc, quote, hist>>

(***************************************************************************)
(* Bounds of the model.                                                    *)
(***************************************************************************)
\* Longest input over the whitespace alphabet.
MaxWsLen == 5
\* Longest run of spaces after a tab or a newline in the indentation inputs.
MaxSpaces == 5
\* Longest input over the number alphabet.
MaxNumLen == 5
\* Longest input over the string-literal alphabet.
MaxStrLen == 4
\* Longest input over the identifier alphabet.
MaxIdentLen == 4
\* How far past the end of the buffer the cursor is followed.
MaxOver == 3

(***************************************************************************)
(* Tokens.                                                                 *)
(***************************************************************************)
Tok(tag) == <<tag, <<>>>>
Ident(text) == <<"Ident", text>>
LitStr(text) == <<"Str", text>>
LitNum(val) == <<"Num", val>>
EOF == Tok("EOF")

(***************************************************************************)
(* Byte classes and tables of next_token's match.                          *)
(***************************************************************************)
\* The single-byte arms of the match, lines 110-139: <<byte, tag>>.
SymbolTable ==
    << <<123, "LSquirly">>, <<125, "RSquirly">>, <<40, "LParen">>,
       <<41, "RParen">>, <<91, "LBrack">>, <<93, "RBrack">>,
       <<60, "LAngle">>, <<62, "RAngle">>, <<44, "Comma">>, <<46, "Dot">>,
       <<63, "Question">>, <<58, "Colon">>, <<59, "SemiColon">>,
       <<33, "Bang">>, <<64, "At">>, <<35, "Octothorpe">>, <<36, "Dollar">>,
       <<37, "Percent">>, <<94, "Caret">>, <<38, "Ampersand">>,
       <<42, "Asterisk">>, <<45, "Dash">>, <<61, "Equal">>, <<43, "Plus">>,
       <<124, "Pipe">>, <<92, "BSlash">>, <<47, "FSlash">>, <<126, "Tilde">>,
       <<96, "Grave">>, <<9, "Tab">> >>

SymbolBytes == {SymbolTable[k][1] : k \in 1..Len(SymbolTable)}

\* SymbolTag with the tags of '[' and '{' taken for each other.
SymbolTagBraces(b) ==
    LET k == CHOOSE k \in 1..Len(SymbolTable) : SymbolTable[k][1] = b
    IN  IF b = 91 THEN "LSquirly"
        ELSE IF b = 123 THEN "LBrack"
        ELSE SymbolTable[k][2]

SymbolTag(b) ==
    LET k == CHOOSE k \in 1..Len(SymbolTable) : SymbolTable[k][1] = b
    IN  SymbolTable[k][2]

\* u8::is_ascii_alphabetic
is_ascii_alphabetic(b) == b \in 65..90 \/ b \in 97..122

\* The identifier class of line 143 and of read_ident's loop, line 221.
IsIdentByte(b) == is_ascii_alphabetic(b) \/ b = 95

\* b'0'..=b'9'
IsDigitByte(b) == b \in 48..57

\* The keyword arms, lines 146-157: <<text, tag>>.
KeywordTable ==
    << <<<<108, 101, 116>>, "Let">>,                 \* let
       <<<<109, 117, 116>>, "Mut">>,                 \* mut
       <<<<100, 101, 102>>, "Def">>,                 \* def
       <<<<115, 116, 114, 117, 99, 116>>, "Struct">>,  \* struct
       <<<<101, 110, 117, 109>>, "Enum">>,           \* enum
       <<<<111, 98, 106, 101, 99, 116>>, "Object">>, \* object
       <<<<105, 102>>, "If">>,                       \* if
       <<<<101, 108, 105, 102>>, "Elif">>,           \* elif
       <<<<101, 108, 115, 101>>, "Else">>,           \* else
       <<<<109, 97, 116, 99, 104>>, "Match">>,       \* match
       <<<<116, 114, 117, 101>>, "True">>,           \* true
       <<<<102, 97, 108, 115, 101>>, "False">> >>    \* false

\* A letter in lower case.
Lower(b) == IF b \in 65..90 THEN b + 32 ELSE b

\* KeywordOrIdent comparing without regard to case.
KeywordOrIdentAnyCase(text) ==
    LET low == [k \in 1..Len(text) |-> Lower(text[k])]
    IN  IF \E k \in 1..Len(KeywordTable) : KeywordTable[k][1] = low
        THEN Tok(KeywordTable[CHOOSE k \in 1..Len(KeywordTable) :
                                  KeywordTable[k][1] = low][2])
        ELSE Ident(text)

\* match ident.as_str() { ... }, lines 145-159.
KeywordOrIdent(text) ==
    IF \E k \in 1..Len(KeywordTable) : KeywordTable[k][1] = text
    THEN Tok(KeywordTable[CHOOSE k \in 1..Len(KeywordTable) :
                              KeywordTable[k][1] = text][2])
    ELSE Ident(text)

(***************************************************************************)
(* Conversions.                                                            *)
(***************************************************************************)
\* String::from_utf8_lossy(..).to_string(): decodes one- and two-byte
\* sequences and replaces every other byte by U+FFFD.  Lead bytes of three-
\* and four-byte sequences (224 and above) are outside the model's alphabet.
RECURSIVE from_utf8_lossy(_)
from_utf8_lossy(s) ==
    IF s = <<>> THEN <<>>
    ELSE IF s[1] < 128 THEN <<s[1]>> \o from_utf8_lossy(Tail(s))
    ELSE IF s[1] \in 194..223 /\ Len(s) >= 2 /\ s[2] \in 128..191
         THEN <<(s[1] - 192) * 64 + (s[2] - 128)>>
                  \o from_utf8_lossy(SubSeq(s, 3, Len(s)))
    ELSE <<65533>> \o from_utf8_lossy(Tail(s))

\* The value of a run of decimal digits.
RECURSIVE DigitsValue(_)
DigitsValue(s) ==
    IF s = <<>> THEN 0
    ELSE DigitsValue(SubSeq(s, 1, Len(s) - 1)) * 10 + (s[Len(s)] - 48)

\* A decimal m / 10^sc without trailing zeros after the point.
RECURSIVE Normalize(_, _)
Normalize(m, sc) ==
    IF sc > 0 /\ m % 10 = 0 THEN Normalize(m \div 10, sc - 1) ELSE <<m, sc>>

\* str::parse::<f64>() on a text of digits and points.  The value is the
\* pair <<m, sc>> standing for m / 10^sc in lowest form (exact for the short
\* texts of the model, where distinct decimals are distinct f64 values);
\* <<>> is Err (no digit at all, or more than one point).
parse_f64(text) ==
    LET points == {k \in 1..Len(text) : text[k] = 46}
        digits == {k \in 1..Len(text) : IsDigitByte(text[k])}
    IN  IF \/ digits = {}
           \/ Cardinality(points) > 1
           \/ points \cup digits # 1..Len(text)
        THEN <<>>
        ELSE IF points = {}
        THEN <<DigitsValue(text), 0>>
        ELSE LET p == CHOOSE k \in points : TRUE
                 whole == SubSeq(text, 1, p - 1)
                 frac == SubSeq(text, p + 1, Len(text))
             IN  Normalize(DigitsValue(whole \o frac), Len(frac))

(***************************************************************************)
(* The cursor and its primitive.                                           *)
(***************************************************************************)
Cursor == [position |-> position, read_position |-> read_position, ch |-> ch]

\* self.input[k]
Byte(k) == input[k + 1]

\* &self.input[a..b]
Slice(a, b) == SubSeq(input, a + 1, b)

\* next_char incrementing the read position only inside the buffer.
next_char_parked(c) ==
    [ch |-> IF c.read_position >= Len(input) THEN 0 ELSE Byte(c.read_position),
     position |-> c.read_position,
     read_position |-> IF c.read_position >= Len(input)
                       THEN c.read_position ELSE c.read_position + 1]

\* next_char loading the byte at the old position instead of the byte at
\* the read position.
next_char_stale(c) ==
    [ch |-> IF c.read_position >= Len(input) THEN 0 ELSE Byte(c.position),
     position |-> c.read_position,
     read_position |-> c.read_position + 1]

\* Lexer::next_char
next_char(c) ==
    [ch |-> IF c.read_position >= Len(input) THEN 0 ELSE Byte(c.read_position),
     position |-> c.read_position,
     read_position |-> c.read_position + 1]

(***************************************************************************)
(* The scanning routines.  Each returns a record with the cursor it leaves.*)
(***************************************************************************)
\* Lexer::prev_match.  The index position - 1 underflows at position 0: a
\* debug build panics on the subtraction, a release build wraps and panics
\* on the index; both are "panic".
prev_match(c, b) ==
    IF c.position - 1 < 0 THEN "panic"
    ELSE IF Byte(c.position - 1) = b THEN "true" ELSE "false"

\* The bounds check of peek_match with the position in place of the
\* read position and > in place of >=.
peek_past_end_by_position(c, s) == Len(s) + c.position > Len(input)

\* The bounds check of peek_match, line 228.
peek_past_end(c, s) == Len(s) + c.read_position >= Len(input)

\* The indices peek_match's loop reads, lines 230-234: position + 1 and on,
\* as long as the bytes before matched.
peek_indices(c, s) ==
    IF peek_past_end(c, s) THEN {}
    ELSE {c.position + k : k \in {k \in 1..Len(s) :
             \A j \in 1..(k - 1) :
                 /\ c.position + j < Len(input)
                 /\ Byte(c.position + j) = s[j]}}

\* Lexer::peek_match: Err, Ok(true) or Ok(false); an index at or past the
\* length of the buffer panics.
peek_match(c, s) ==
    IF peek_past_end(c, s) THEN "Err"
    ELSE IF \E i \in peek_indices(c, s) : i >= Len(input) THEN "panic"
    ELSE IF \A k \in 1..Len(s) : Byte(c.position + k) = s[k]
         THEN "OkTrue" ELSE "OkFalse"

\* read_whitespace peeking for three more spaces whatever the previous
\* byte is.
read_whitespace_always_peek(c) ==
    LET byTab == prev_match(c, 9)
        peek == peek_match(c, <<32, 32, 32>>)
    IN  IF byTab = "panic" \/ peek = "panic"
        THEN [out |-> "panic", cur |-> c, tok |-> EOF]
        ELSE IF peek = "OkTrue"
        THEN [out |-> "ret",
              cur |-> next_char(next_char(next_char(c))),
              tok |-> Tok("Tab")]
        ELSE IF peek = "OkFalse"
        THEN [out |-> "ret", cur |-> c, tok |-> Tok("Space")]
        ELSE [out |-> "ret", cur |-> c, tok |-> EOF]

\* Lexer::read_whitespace
read_whitespace(c) ==
    LET byTab == prev_match(c, 9)
        byNewline == prev_match(c, 10)
        peek == peek_match(c, <<32, 32, 32>>)
    IN  IF byTab = "panic"
        THEN [out |-> "panic", cur |-> c, tok |-> EOF]
        ELSE IF byTab = "true" \/ byNewline = "true"
        THEN IF peek = "panic"
             THEN [out |-> "panic", cur |-> c, tok |-> EOF]
             ELSE IF peek = "OkTrue"
             THEN [out |-> "ret",
                   cur |-> next_char(next_char(next_char(c))),
                   tok |-> Tok("Tab")]
             ELSE IF peek = "OkFalse"
             THEN [out |-> "ret", cur |-> c, tok |-> Tok("Space")]
             ELSE [out |-> "ret", cur |-> c, tok |-> EOF]
        ELSE [out |-> "ret", cur |-> c, tok |-> Tok("Space")]

\* The loop of read_number_literal, lines 191-200.
RECURSIVE number_loop(_, _)
number_loop(c, decimal) ==
    IF IsDigitByte(c.ch) THEN number_loop(next_char(c), decimal)
    ELSE IF c.ch = 46
         THEN IF decimal THEN c ELSE number_loop(next_char(c), TRUE)
    ELSE c

\* Lexer::read_number_literal; unwrap() panics on Err.
read_number_literal(c) ==
    LET e == number_loop(c, FALSE)
        val == parse_f64(from_utf8_lossy(Slice(c.position, e.position)))
    IN  IF val = <<>>
        THEN [out |-> "panic", cur |-> e, tok |-> EOF]
        ELSE [out |-> "ret", cur |-> e, tok |-> LitNum(val)]

\* The loop of read_string_literal, lines 212-215, followed as far as the
\* end of the buffer: it stops on the closing quote, or on the first
\* sentinel, after which ch stays 0 and the loop goes on (StringLoop).
RECURSIVE string_loop(_, _)
string_loop(c, q) ==
    IF c.ch = q THEN c
    ELSE IF c.position >= Len(input) THEN c
    ELSE string_loop(next_char(c), q)

\* read_string_literal taking the start of the payload before it advances
\* past the opening quote.
read_string_literal_from_quote(c) ==
    LET first == next_char(c)
        e == string_loop(first, c.ch)
    IN  IF e.ch = c.ch
        THEN [out |-> "ret", cur |-> e,
              tok |-> LitStr(from_utf8_lossy(Slice(c.position, e.position)))]
        ELSE [out |-> "loop", cur |-> e, tok |-> EOF]

\* Lexer::read_string_literal
read_string_literal(c) ==
    LET first == next_char(c)
        e == string_loop(first, c.ch)
    IN  IF e.ch = c.ch
        THEN [out |-> "ret", cur |-> e,
              tok |-> LitStr(from_utf8_lossy(Slice(first.position, e.position)))]
        ELSE [out |-> "loop", cur |-> e, tok |-> EOF]

\* The loop of read_ident, lines 221-223.
RECURSIVE ident_loop(_)
ident_loop(c) ==
    IF IsIdentByte(c.ch) THEN ident_loop(next_char(c)) ELSE c

\* Lexer::read_ident followed by the keyword match.
read_ident(c) ==
    LET e == ident_loop(c)
    IN  [out |-> "ret", cur |-> e,
         tok |-> KeywordOrIdent(from_utf8_lossy(Slice(c.position, e.position)))]

\* Classify with the arm of the unrecognised bytes panicking
\* (_ => unreachable!()) instead of returning end-of-input.
ClassifyUnreachable(c) ==
    IF c.ch \in SymbolBytes
    THEN [out |-> "ret", cur |-> c, tok |-> Tok(SymbolTag(c.ch))]
    ELSE IF c.ch = 32 THEN read_whitespace(c)
    ELSE IF c.ch = 39 \/ c.ch = 34 THEN read_string_literal(c)
    ELSE IF IsIdentByte(c.ch) THEN read_ident(c)
    ELSE IF IsDigitByte(c.ch) THEN read_number_literal(c)
    ELSE IF c.ch = 0 THEN [out |-> "ret", cur |-> c, tok |-> EOF]
    ELSE [out |-> "panic", cur |-> c, tok |-> EOF]

\* Classify with an arm b'\n' => Token::NewLine.
ClassifyNewLine(c) ==
    IF c.ch \in SymbolBytes
    THEN [out |-> "ret", cur |-> c, tok |-> Tok(SymbolTag(c.ch))]
    ELSE IF c.ch = 10 THEN [out |-> "ret", cur |-> c, tok |-> Tok("NewLine")]
    ELSE IF c.ch = 32 THEN read_whitespace(c)
    ELSE IF c.ch = 39 \/ c.ch = 34 THEN read_string_literal(c)
    ELSE IF IsIdentByte(c.ch) THEN read_ident(c)
    ELSE IF IsDigitByte(c.ch) THEN read_number_literal(c)
    ELSE [out |-> "ret", cur |-> c, tok |-> EOF]

\* The match of next_token, lines 109-164.
Classify(c) ==
    IF c.ch \in SymbolBytes
    THEN [out |-> "ret", cur |-> c, tok |-> Tok(SymbolTag(c.ch))]
    ELSE IF c.ch = 32 THEN read_whitespace(c)
    ELSE IF c.ch = 39 \/ c.ch = 34 THEN read_string_literal(c)
    ELSE IF IsIdentByte(c.ch) THEN read_ident(c)
    ELSE IF IsDigitByte(c.ch) THEN read_number_literal(c)
    ELSE [out |-> "ret", cur |-> c, tok |-> EOF]

\* Lexer::next_token: the match, then next_char, then (position, tok).
\* endpos is the cursor's offset when the match is done.
next_token(c) ==
    LET m == Classify(c)
    IN  IF m.out = "ret"
        THEN [out |-> "ret", cur |-> next_char(m.cur), tok |-> m.tok,
              endpos |-> m.cur.position]
        ELSE [out |-> m.out, cur |-> m.cur, tok |-> m.tok,
              endpos |-> m.cur.position]

(***************************************************************************)
(* The inputs of the model: Lexer::new takes a String, so every input is   *)
(* valid UTF-8.                                                            *)
(***************************************************************************)
RECURSIVE ValidUtf8(_)
ValidUtf8(s) ==
    IF s = <<>> THEN TRUE
    ELSE IF s[1] < 128 THEN ValidUtf8(Tail(s))
    ELSE IF s[1] \in 194..223 /\ Len(s) >= 2 /\ s[2] \in 128..191
         THEN ValidUtf8(SubSeq(s, 3, Len(s)))
    ELSE FALSE

Words(alphabet, n) == UNION {[1..k -> alphabet] : k \in 0..n}

\* tab, newline, space, 'a'
WsInputs == Words({9, 10, 32, 97}, MaxWsLen)
\* a tab or a newline, a run of spaces, and up to two more bytes
IndentInputs ==
    {<<lead>> \o [k \in 1..n |-> 32] \o rest :
        lead \in {9, 10}, n \in 1..MaxSpaces, rest \in Words({97, 10, 32}, 2)}
\* a '+' or a '.', a run of spaces, and up to two more bytes
MidLineInputs ==
    {<<lead>> \o [k \in 1..n |-> 32] \o rest :
        lead \in {43, 46}, n \in 1..MaxSpaces, rest \in Words({97, 10, 32}, 2)}
\* '0', '3', '.', 'a'
NumInputs == Words({48, 51, 46, 97}, MaxNumLen)
\* ', ", \, 'a', and the two bytes of U+00E9
StrInputs == {s \in Words({39, 34, 92, 97, 195, 169}, MaxStrLen) : ValidUtf8(s)}
\* 'i', 'f', 'F', '_', '1', '+'
IdentInputs == Words({105, 102, 70, 95, 49, 43}, MaxIdentLen)
\* every ASCII byte alone, and U+00E9 alone
ByteInputs == {<<b>> : b \in 0..127} \cup {<<195, 169>>}
\* the keywords, alone and with a neighbour, shortened, capitalised, and
\* capitalised then plain with a '.' between
KeywordInputs ==
    LET kws == {KeywordTable[k][1] : k \in 1..Len(KeywordTable)}
        near == {115, 95, 49, 32, 46}
    IN  kws
        \cup {kw \o <<b>> : kw \in kws, b \in near}
        \cup {<<b>> \o kw : kw \in kws, b \in near}
        \cup {SubSeq(kw, 1, Len(kw) - 1) : kw \in kws}
        \cup {<<kw[1] - 32>> \o Tail(kw) : kw \in kws}
        \cup {<<kw[1] - 32>> \o Tail(kw) \o <<46>> \o kw : kw \in kws}

\* a newline, an underscore, a '+', and a double quote between single
\* quotes; a newline, U+00E9 and a '+'
MixedInputs == {<<10, 95, 43, 39, 34, 39>>, <<10, 195, 169, 43>>}

Inputs ==
    MixedInputs \cup WsInputs \cup IndentInputs \cup MidLineInputs \cup NumInputs \cup StrInputs \cup IdentInputs \cup ByteInputs
        \cup KeywordInputs

(***************************************************************************)
(* The state machine.                                                      *)
(*   pc = "ready"   between calls of next_token                            *)
(*   pc = "loop"    inside read_string_literal's loop, at or past the end  *)
(*                  of the buffer                                          *)
(*   pc = "panic"   a call of next_token panicked                          *)
(* hist records every call that returned: the cursor's offset when it was  *)
(* made, the pair it returned, and the cursor's offset after the match.    *)
(***************************************************************************)
\* Lexer::new: the fields, then one next_char.
Init ==
    /\ input \in Inputs
    /\ LET c == next_char([position |-> 0, read_position |-> 0, ch |-> 0])
       IN  /\ position = c.position
           /\ read_position = c.read_position
           /\ ch = c.ch
    /\ pc = "ready"
    /\ quote = 0
    /\ hist = <<>>

\* One call of next_token.
NextToken ==
    /\ pc = "ready"
    /\ position < Len(input) + MaxOver
    /\ LET r == next_token(Cursor)
       IN  /\ position' = r.cur.position
           /\ read_position' = r.cur.read_position
           /\ ch' = r.cur.ch
           /\ pc' = IF r.out = "ret" THEN "ready" ELSE r.out
           /\ quote' = IF r.out = "loop" THEN ch ELSE 0
           /\ hist' = IF r.out = "ret"
                      THEN Append(hist, [start |-> position,
                                         off |-> r.cur.position,
                                         tok |-> r.tok,
                                         endpos |-> r.endpos])
                      ELSE hist
    /\ UNCHANGED input

\* One more iteration of read_string_literal's loop past the end of the
\* buffer: ch is the sentinel, not the quote, so the loop advances.
StringLoop ==
    /\ pc = "loop"
    /\ position < Len(input) + MaxOver
    /\ ch # quote
    /\ LET c == next_char(Cursor)
       IN  /\ position' = c.position
           /\ read_position' = c.read_position
           /\ ch' = c.ch
    /\ UNCHANGED <<input, pc, quote, hist>>

Next == NextToken \/ StringLoop

Spec == Init /\ [][Next]_vars

(***************************************************************************)
(* Vocabulary of the properties.                                           *)
(***************************************************************************)
\* The calls that have returned so far.
Calls == 1..Len(hist)

\* The start of the n-th token's byte range: 0, then the offset returned
\* by the call before.
RangeStart(n) == IF n = 1 THEN 0 ELSE hist[n - 1].off

\* The n-th call returned the first end-of-input token.
FirstEOF(n) ==
    /\ n \in Calls
    /\ hist[n].tok = EOF
    /\ \A m \in 1..(n - 1) : hist[m].tok # EOF

\* The tags of the tokens whose scan stops on the first byte after them.
RunTags == {"Ident", "Num"} \cup {KeywordTable[k][2] : k \in 1..Len(KeywordTable)}

\* The offset after the last byte the token of a call was classified from:
\* a run ends where its scan stopped, an end-of-input token read at the
\* sentinel stands for no byte, every other token ends on the byte the
\* cursor rests on.
LexEnd(h) ==
    IF h.tok[1] \in RunTags THEN h.endpos
    ELSE IF h.tok = EOF /\ h.start >= Len(input) THEN h.start
    ELSE h.endpos + 1

\* The UTF-8 bytes of a text.
RECURSIVE Utf8Encode(_)
Utf8Encode(text) ==
    IF text = <<>> THEN <<>>
    ELSE LET cp == text[1]
             bytes == IF cp < 128 THEN <<cp>>
                      ELSE IF cp < 2048
                      THEN <<192 + (cp \div 64), 128 + (cp % 64)>>
                      ELSE <<224 + (cp \div 4096), 128 + ((cp \div 64) % 64),
                             128 + (cp % 64)>>
         IN  bytes \o Utf8Encode(Tail(text))

\* An ASCII letter or an underscore.
LetterOrUnderscore(b) == (b >= 65 /\ b <= 90) \/ (b >= 97 /\ b <= 122) \/ b = 95

\* An ASCII digit.
Digit(b) == b >= 48 /\ b <= 57

\* The offset after the maximal run of letters and underscores at offset p.
RunEnd(p) ==
    CHOOSE e \in p..Len(input) :
        /\ \A k \in p..(e - 1) : LetterOrUnderscore(Byte(k))
        /\ e = Len(input) \/ ~LetterOrUnderscore(Byte(e))

\* The keyword strings.
KeywordTexts == {KeywordTable[k][1] : k \in 1..Len(KeywordTable)}

\* Offset p holds a space right after a tab or a newline.
LineStartSpace(p) ==
    /\ p >= 1
    /\ p < Len(input)
    /\ Byte(p) = 32
    /\ Byte(p - 1) \in {9, 10}

\* The number of spaces in the run of spaces that starts at offset p.
SpaceRun(p) ==
    LET e == CHOOSE e \in p..Len(input) :
                 /\ \A k \in p..(e - 1) : Byte(k) = 32
                 /\ e = Len(input) \/ Byte(e) # 32
    IN  e - p

\* The offsets after p that hold the byte at p.
Closers(p) == {j \in (p + 1)..(Len(input) - 1) : Byte(j) = Byte(p)}

(***************************************************************************)
(* C1.  Round trip of the offsets: the byte ranges of the tokens returned  *)
(* before the first end-of-input token lie inside the buffer, each is      *)
(* exactly the bytes its token was classified from, and together they      *)
(* reach the end of the input.  Stated for the scans whose first           *)
(* end-of-input token is read at or past the end of the buffer, and with   *)
(* the end-of-input token standing for no byte.                            *)
(***************************************************************************)
C1_RoundTrip ==
    \A n \in Calls :
        (FirstEOF(n) /\ hist[n].start >= Len(input)) =>
            /\ \A m \in 1..(n - 1) :
                  /\ RangeStart(m) <= hist[m].off
                  /\ hist[m].off <= Len(input)
                  /\ hist[m].off = LexEnd(hist[m])
            /\ RangeStart(n) = Len(input)

(***************************************************************************)
(* C2.  Idempotence at end-of-input: once a call has returned the          *)
(* end-of-input token, every later call returns end-of-input with the same *)
(* offset, and no later call fails.                                        *)
(***************************************************************************)
C2_EofIdempotent ==
    /\ \A i, j \in Calls :
          (i < j /\ hist[i].tok = EOF) =>
              /\ hist[j].tok = EOF
              /\ hist[j].off = hist[i].off
    /\ (\E i \in Calls : hist[i].tok = EOF) => pc = "ready"

(***************************************************************************)
(* C3.  An input made of a run of letters and underscores that is no       *)
(* keyword, followed by one digit, scans as the identifier of the run,     *)
(* then the numeric literal of the digit, then end-of-input.               *)
(***************************************************************************)
C3_IdentThenDigit ==
    LET n == Len(input)
        run == SubSeq(input, 1, n - 1)
    IN  ( /\ n >= 2
          /\ \A k \in 1..(n - 1) : LetterOrUnderscore(input[k])
          /\ Digit(input[n])
          /\ run \notin KeywordTexts ) =>
            /\ pc = "ready"
            /\ Len(hist) >= 1 => hist[1].tok = Ident(run)
            /\ Len(hist) >= 2 => hist[2].tok = LitNum(<<input[n] - 48, 0>>)
            /\ Len(hist) >= 3 => hist[3].tok = EOF

(***************************************************************************)
(* C4.  One-byte inputs of the symbol set.                                 *)
(***************************************************************************)
\* The symbol set and its tags, in the order the property lists them.
PunctTable ==
    << <<40, "LParen">>, <<41, "RParen">>, <<91, "LBrack">>, <<93, "RBrack">>,
       <<123, "LSquirly">>, <<125, "RSquirly">>, <<60, "LAngle">>,
       <<62, "RAngle">>, <<39, "SingleQuote">>, <<34, "DoubleQuote">>,
       <<44, "Comma">>, <<46, "Dot">>, <<124, "Pipe">>, <<43, "Plus">>,
       <<45, "Dash">>, <<95, "Underscore">>, <<61, "Equal">>, <<47, "FSlash">>,
       <<92, "BSlash">>, <<58, "Colon">>, <<59, "SemiColon">>, <<33, "Bang">>,
       <<64, "At">>, <<35, "Octothorpe">>, <<36, "Dollar">>, <<37, "Percent">>,
       <<94, "Caret">>, <<38, "Ampersand">>, <<42, "Asterisk">>,
       <<63, "Question">>, <<126, "Tilde">>, <<96, "Grave">> >>

\* Scanning the one-byte input b: the first call returns tag having
\* consumed one byte, the second returns end-of-input.
OneByteScan(b, tag) ==
    input = <<b>> =>
        /\ pc = "ready"
        /\ Len(hist) >= 1 =>
              /\ hist[1].tok = Tok(tag)
              /\ hist[1].off = 1
              /\ LexEnd(hist[1]) = 1
        /\ Len(hist) >= 2 => hist[2].tok = EOF

\* C4 as stated: every byte of the symbol set, alone, scans as its
\* punctuation tag, then end-of-input.
C4_EverySymbol ==
    \A k \in 1..Len(PunctTable) : OneByteScan(PunctTable[k][1], PunctTable[k][2])

\* C4 as amended: every byte of the symbol set other than the two quotes
\* and the underscore, alone, scans as its punctuation tag having consumed
\* one byte, then end-of-input; an underscore alone is returned as the
\* identifier "_", and on a quote alone no call returns.
C4_SymbolsButQuotesAndUnderscore ==
    /\ \A k \in 1..Len(PunctTable) :
          PunctTable[k][1] \notin {39, 34, 95} =>
              OneByteScan(PunctTable[k][1], PunctTable[k][2])
    /\ input = <<95>> => (pc = "ready" /\ (Len(hist) >= 1 => hist[1].tok = Ident(<<95>>)))
    /\ input \in {<<39>>, <<34>>} => (hist = <<>> /\ pc \in {"ready", "loop"})

\* A symbol byte alone has been scanned to its tag and then to end-of-input.
C4_Witness ==
    /\ Len(input) = 1
    /\ \E k \in 1..Len(PunctTable) :
          /\ PunctTable[k][1] = input[1]
          /\ Len(hist) = 2
          /\ hist[1].tok = Tok(PunctTable[k][2])
          /\ hist[2].tok = EOF

(***************************************************************************)
(* C5.  A call made on a letter or an underscore returns the keyword token *)
(* of the run of letters and underscores that starts there exactly when    *)
(* the run is, byte for byte, one of the 12 keywords; otherwise it returns *)
(* the identifier carrying the bytes of the run.                           *)
(***************************************************************************)
C5_KeywordIff ==
    \A n \in Calls :
        LET h == hist[n]
            p == h.start
        IN  (p < Len(input) /\ LetterOrUnderscore(Byte(p))) =>
                LET run == Slice(p, RunEnd(p))
                IN  /\ \A k \in 1..Len(KeywordTable) :
                          h.tok = Tok(KeywordTable[k][2]) <=> run = KeywordTable[k][1]
                    /\ run \notin KeywordTexts => h.tok = Ident(run)

\* One scan has returned a capitalised keyword as an identifier and then
\* the keyword itself as its keyword token.
C5_Witness ==
    \E m, n \in Calls :
        /\ m < n
        /\ hist[m].tok = Ident(<<69, 108, 105, 102>>)
        /\ hist[n].tok = Tok("Elif")
        /\ Slice(hist[n].start, LexEnd(hist[n])) = <<101, 108, 105, 102>>

(***************************************************************************)
(* C6.  Tab emulation: a call made on a space that follows a tab or a      *)
(* newline and is followed, inside the buffer, by three more spaces        *)
(* returns one Tab token and consumes the four spaces, also when they are  *)
(* the last bytes of the input.                                            *)
(***************************************************************************)
C6_TabEmulation ==
    \A n \in Calls :
        LET p == hist[n].start
        IN  (LineStartSpace(p) /\ p + 3 < Len(input) /\ SpaceRun(p) >= 4) =>
                /\ hist[n].tok = Tok("Tab")
                /\ hist[n].off = p + 4

(***************************************************************************)
(* C7.  A run of one, two or three spaces right after a tab or a newline   *)
(* is not folded: the call made on its first space returns one Space token *)
(* consuming one byte, and the following calls return each remaining space *)
(* as a Space token.  Stated for the runs whose first space has three      *)
(* bytes after it in the buffer, so that the peek stays inside the buffer. *)
(***************************************************************************)
C7_ShortRunNotFolded ==
    \A n \in Calls :
        LET p == hist[n].start
        IN  (LineStartSpace(p) /\ p + 3 < Len(input) /\ SpaceRun(p) \in 1..3) =>
                \A k \in 0..(SpaceRun(p) - 1) :
                    n + k \in Calls =>
                        /\ hist[n + k].tok = Tok("Space")
                        /\ hist[n + k].start = p + k
                        /\ hist[n + k].off = p + k + 1

(***************************************************************************)
(* C8.  An input D1 '.' D2 '.' D3 of three runs of digits scans as the     *)
(* numeric literal D1.D2, then a Dot token, then the numeric literal D3,   *)
(* then end-of-input.                                                      *)
(***************************************************************************)
C8_SecondPointIsDot ==
    LET points == {k \in 1..Len(input) : input[k] = 46}
    IN  ( /\ Cardinality(points) = 2
          /\ \A k \in 1..Len(input) : k \in points \/ Digit(input[k])
          /\ \A k \in points : k > 1 /\ k < Len(input) /\ k + 1 \notin points ) =>
            LET p2 == CHOOSE k \in points : \A j \in points : j <= k
            IN  /\ pc = "ready"
                /\ Len(hist) >= 1 =>
                      hist[1].tok = LitNum(parse_f64(SubSeq(input, 1, p2 - 1)))
                /\ Len(hist) >= 2 => hist[2].tok = Tok("Dot")
                /\ Len(hist) >= 3 =>
                      hist[3].tok = LitNum(parse_f64(SubSeq(input, p2 + 1, Len(input))))
                /\ Len(hist) >= 4 => hist[4].tok = EOF

(***************************************************************************)
(* C9.  String literal payload: a call made on a quote q at offset i, with *)
(* j the first later offset holding q, returns the string literal whose    *)
(* payload is the bytes i+1..j-1, has consumed the bytes i..j and returns  *)
(* the offset j+1; the other quote and the backslash do not end the        *)
(* literal.  A call that has not returned has no closing quote to find.    *)
(***************************************************************************)
C9_StringPayload ==
    /\ \A n \in Calls :
          LET h == hist[n]
              i == h.start
          IN  (i < Len(input) /\ Byte(i) \in {39, 34}) =>
                  /\ Closers(i) # {}
                  /\ LET j == CHOOSE j \in Closers(i) : \A k \in Closers(i) : j <= k
                     IN  /\ h.tok[1] = "Str"
                         /\ Utf8Encode(h.tok[2]) = Slice(i + 1, j)
                         /\ LexEnd(h) = j + 1
                         /\ h.off = j + 1
    /\ pc = "loop" =>
          LET i == RangeStart(Len(hist) + 1)
          IN  /\ Byte(i) \in {39, 34}
              /\ Closers(i) = {}

\* A string literal has been returned whose payload holds the other quote
\* character and a backslash.
C9_Witness ==
    \E n \in Calls :
        LET h == hist[n]
        IN  /\ h.tok[1] = "Str"
            /\ \E k \in 1..Len(h.tok[2]) : h.tok[2][k] = 92
            /\ \E k \in 1..Len(h.tok[2]) :
                  h.tok[2][k] \in {39, 34} /\ h.tok[2][k] # Byte(h.start)

(***************************************************************************)
(* C10.  When the first byte of the input is a space, the first call does  *)
(* not fail: the missing previous byte is no tab and no newline, and the   *)
(* call returns a Space token consuming one byte.                          *)
(***************************************************************************)
C10_FirstByteSpace ==
    (Len(input) >= 1 /\ input[1] = 32) =>
        /\ pc # "panic"
        /\ Len(hist) >= 1 =>
              /\ hist[1].tok = Tok("Space")
              /\ hist[1].off = 1

(***************************************************************************)
(* C11.  The peek ahead is bounds-checked: a call made on a space that     *)
(* follows a tab or a newline, with fewer than three bytes after it in the *)
(* buffer, returns end-of-input and does not panic; and wherever a call    *)
(* peeks, peek_match reads only indices below the length of the buffer.    *)
(***************************************************************************)
C11_PeekBoundsChecked ==
    /\ \A n \in Calls :
          LET p == hist[n].start
          IN  (LineStartSpace(p) /\ Len(input) - (p + 1) < 3) =>
                  hist[n].tok = EOF
    /\ pc = "panic" =>
          ~(LineStartSpace(position) /\ Len(input) - (position + 1) < 3)
    /\ (pc = "ready" /\ LineStartSpace(position)) =>
          \A i \in peek_indices(Cursor, <<32, 32, 32>>) : i < Len(input)

\* A call made on a line-start space with two more bytes after it, both
\* spaces, has returned end-of-input.
C11_Witness ==
    \E n \in Calls :
        LET p == hist[n].start
        IN  /\ LineStartSpace(p)
            /\ Len(input) - (p + 1) = 2
            /\ SpaceRun(p) = 3
            /\ hist[n].tok = EOF

\* The byte a cursor holds is the byte of the buffer at its offset, or the
\* sentinel 0 at or past the end of the buffer.
CursorLoaded(c) ==
    IF c.position < Len(input) THEN c.ch = Byte(c.position) ELSE c.ch = 0

(***************************************************************************)
(* C12.  Cursor invariant: in every reachable state, and after next_char   *)
(* from any read position, the current byte is the byte of the buffer at   *)
(* the current offset, or the sentinel 0 when the offset is at or past the *)
(* end; and the current offset never decreases from a state to the next.   *)
(***************************************************************************)
C12_CursorInvariant ==
    /\ [](/\ CursorLoaded(Cursor)
          /\ \A rp \in 0..(Len(input) + MaxOver) :
                CursorLoaded(next_char([position |-> position,
                                        read_position |-> rp,
                                        ch |-> ch])))
    /\ [][position' >= position]_vars

\* The cursor has gone past the end of the buffer, holding the sentinel,
\* after a call that advanced over more than one byte.
C12_Witness ==
    /\ position > Len(input)
    /\ ch = 0
    /\ \E n \in Calls : hist[n].off - hist[n].start > 1

\* The bytes of the buffer from offset p on.
Remaining(p) == IF p < Len(input) THEN Len(input) - p ELSE 0

\* Offset p holds a quote that no later byte of the buffer closes.
Unterminated(p) ==
    /\ p < Len(input)
    /\ Byte(p) \in {39, 34}
    /\ Closers(p) = {}

(***************************************************************************)
(* C13.  Termination of next_token: a call fails to return exactly when it *)
(* is made on a quote that no later byte of the buffer closes, and then    *)
(* read_string_literal is advancing over sentinel bytes past the end of    *)
(* the input; every other call returns, after a number of next_char steps  *)
(* of at most the number of remaining bytes plus one.                      *)
(***************************************************************************)
C13_ReturnsUnlessUnterminated ==
    /\ pc # "ready" =>
          /\ pc = "loop"
          /\ Unterminated(RangeStart(Len(hist) + 1))
          /\ position >= Len(input)
          /\ ch = 0
    /\ \A n \in Calls :
          /\ ~Unterminated(hist[n].start)
          /\ hist[n].off - hist[n].start <= Remaining(hist[n].start) + 1

\* Offset p, not the first, holds a space whose previous byte is neither a
\* tab nor a newline.
MidLineSpace(p) ==
    /\ p >= 1
    /\ p < Len(input)
    /\ Byte(p) = 32
    /\ Byte(p - 1) \notin {9, 10}

(***************************************************************************)
(* C14.  No folding in the middle of a line: a call made on a space at an  *)
(* offset of at least 1 whose previous byte is neither a tab nor a newline *)
(* returns a Space token and consumes exactly one byte, whatever follows,  *)
(* and does not fail.                                                      *)
(***************************************************************************)
C14_NoMidLineFolding ==
    /\ \A n \in Calls :
          LET p == hist[n].start
          IN  MidLineSpace(p) =>
                  /\ hist[n].tok = Tok("Space")
                  /\ LexEnd(hist[n]) = p + 1
                  /\ hist[n].off = p + 1
    /\ pc # "ready" => ~MidLineSpace(RangeStart(Len(hist) + 1))

\* A call made on such a space, with three more spaces right after it, has
\* returned a Space token.
C14_Witness ==
    \E n \in Calls :
        /\ MidLineSpace(hist[n].start)
        /\ SpaceRun(hist[n].start) >= 4
        /\ hist[n].tok = Tok("Space")

\* The variants of Token.
TokenTags ==
    {"Ident", "Str", "Num", "Let", "Mut", "Def", "Struct", "Enum", "Object",
     "If", "Elif", "Else", "Match", "True", "False", "NewLine", "Space", "Tab",
     "LParen", "RParen", "LSquirly", "RSquirly", "LBrack", "RBrack",
     "SingleQuote", "DoubleQuote", "LAngle", "RAngle", "Comma", "Dot", "Pipe",
     "Plus", "Dash", "Underscore", "Equal", "FSlash", "BSlash", "Colon",
     "SemiColon", "Bang", "At", "Octothorpe", "Dollar", "Percent", "Caret",
     "Ampersand", "Asterisk", "Question", "Tilde", "Grave", "EOF"}

\* The byte at offset p, or the sentinel 0 at or past the end of the buffer.
CurrentByte(p) == IF p < Len(input) THEN Byte(p) ELSE 0

\* A byte that is no symbol byte of the property's list, tab, space, quote,
\* letter, underscore or digit.
Unrecognised(b) ==
    /\ b \notin {PunctTable[k][1] : k \in 1..Len(PunctTable)}
    /\ b \notin {9, 32, 39, 34}
    /\ ~LetterOrUnderscore(b)
    /\ ~Digit(b)

(***************************************************************************)
(* C15.  Lenient degrade to end-of-input: a call made on the byte 0 or on  *)
(* any byte that is no symbol byte, tab, space, quote, letter, underscore  *)
(* or digit returns the end-of-input token and does not fail; and what a   *)
(* call returns is always a token, never an error.                         *)
(***************************************************************************)
C15_UnrecognisedIsEOF ==
    /\ \A n \in Calls :
          /\ Unrecognised(CurrentByte(hist[n].start)) =>
                /\ hist[n].tok = EOF
                /\ hist[n].off = hist[n].start + 1
          /\ hist[n].tok[1] \in TokenTags
    /\ pc # "ready" => ~Unrecognised(CurrentByte(RangeStart(Len(hist) + 1)))

\* A call made inside the buffer on a byte of value 128 or more has
\* returned end-of-input, and so has an earlier call on a control byte.
C15_Witness ==
    \E m, n \in Calls :
        /\ m < n
        /\ hist[m].start < Len(input) /\ Byte(hist[m].start) = 10
        /\ hist[n].start < Len(input) /\ Byte(hist[n].start) >= 128
        /\ hist[m].tok = EOF
        /\ hist[n].tok = EOF

(***************************************************************************)
(* C16.  No call ever returns NewLine, SingleQuote, DoubleQuote or         *)
(* Underscore: a newline byte gives end-of-input, a quote byte starts a    *)
(* string literal and an underscore starts an identifier.                  *)
(***************************************************************************)
C16_UnreachableVariants ==
    \A n \in Calls :
        LET b == CurrentByte(hist[n].start)
            t == hist[n].tok
        IN  /\ t[1] \notin {"NewLine", "SingleQuote", "DoubleQuote", "Underscore"}
            /\ (hist[n].start < Len(input) /\ b = 10) => t = EOF
            /\ (hist[n].start < Len(input) /\ b \in {39, 34}) => t[1] = "Str"
            /\ (hist[n].start < Len(input) /\ b = 95) => t[1] = "Ident"

\* One scan has made a call on a newline, one on an underscore and one on a
\* quote, and each has returned.
C16_Witness ==
    \E k, m, n \in Calls :
        /\ CurrentByte(hist[k].start) = 10 /\ hist[k].tok = EOF
        /\ CurrentByte(hist[m].start) = 95 /\ hist[m].tok = Ident(<<95>>)
        /\ CurrentByte(hist[n].start) = 39 /\ hist[n].tok = LitStr(<<34>>)

(***************************************************************************)
(* C17.  In every reachable state the next read offset is the current      *)
(* offset plus one, also once the cursor is past the end of the buffer.    *)
(***************************************************************************)
C17_ReadPositionIsNext == read_position = position + 1

\* The cursor is past the end of the buffer after a second call.
C17_Witness ==
    /\ position > Len(input)
    /\ Len(hist) >= 2
    /\ Len(input) >= 1

====
